---------------------------- MODULE Spec2Model ----------------------------
(***************************************************************************)
(* Model of dictionaries/english/build-dictionary.py: a script that reads  *)
(* a gzip-compressed word list line by line and writes every word to the   *)
(* file "<n>.txt", n being len() of the stripped line.                     *)
(*                                                                         *)
(* A source line is a sequence of bytes (gzip.open yields bytes), a file   *)
(* content is a sequence of code points (the files are opened in text      *)
(* mode).  The file system is a set of pairs <<n, content>>, one per       *)
(* existing file "<n>.txt".  File contents are the logical contents (what  *)
(* has been written through the handle); buffering is not modelled.        *)
(***************************************************************************)
EXTENDS Integers, Sequences, FiniteSets, Bags, TLC

\* ------------------------------------------------------------------ bounds
MaxLines == 2       \* lines in the source
MaxRuns == 2        \* invocations of the script on the same source

\* ------------------------------------------------------------- input bytes
NL == 10            \* "\n"
\* bytes removed by bytes.strip(): ASCII whitespace
Whitespace == {9, 10, 11, 12, 13, 32}

RECURSIVE SeqsUpTo(_, _)
SeqsUpTo(S, m) ==
  IF m = 0 THEN {<<>>}
  ELSE LET shorter == SeqsUpTo(S, m - 1)
       IN shorter \cup {Append(s, x) : s \in shorter, x \in S}

\* the lines the iteration over the gzip file can yield, as bytes with their
\* terminator
SourceLines ==
  { <<NL>>,                  \* an empty line
    <<97, NL>>,              \* "a"
    <<97, 98, NL>>,          \* "ab"
    <<32, 97, 32, 98, 13, NL>>,  \* " a b" with a CR LF terminator
    <<195, 169, NL>>,        \* U+00E9: one character, two bytes
    <<169, NL>> }            \* a continuation byte alone: not valid UTF-8
Sources == SeqsUpTo(SourceLines, MaxLines)
\* a file left in the working directory by something else: "1.txt" = "x\n"
StaleFiles == {<<1, <<120, NL>>>>}

\* ------------------------------------------------------------ bytes.strip
RECURSIVE LStrip(_)
LStrip(b) ==
  IF b # <<>> /\ Head(b) \in Whitespace THEN LStrip(Tail(b)) ELSE b

RECURSIVE RStrip(_)
RStrip(b) ==
  IF b # <<>> /\ b[Len(b)] \in Whitespace
  THEN RStrip(SubSeq(b, 1, Len(b) - 1)) ELSE b

\* word.rstrip(): the trailing end only
StripTrailingOnly(b) == RStrip(b)
\* word.strip() on bytes: both ends
Strip(b) == LStrip(RStrip(b))

\* ----------------------------------------------------- len(word) on bytes
BucketOf(word) == Len(word)

\* ------------------------------------------------- bytes.decode("utf-8")
IsCont(x) == x >= 128 /\ x <= 191

\* number of bytes of the character that starts b, 0 when b does not start
\* with a well-formed character
CharWidth(b) ==
  LET b1 == b[1]
      c2 == Len(b) >= 2 /\ IsCont(b[2])
      c3 == Len(b) >= 3 /\ IsCont(b[3])
      c4 == Len(b) >= 4 /\ IsCont(b[4])
  IN IF b1 < 128 THEN 1
     ELSE IF b1 >= 194 /\ b1 <= 223 THEN (IF c2 THEN 2 ELSE 0)
     ELSE IF b1 >= 224 /\ b1 <= 239
       THEN (IF c2 /\ c3 /\ (b1 = 224 => b[2] >= 160)
                         /\ (b1 = 237 => b[2] <= 159) THEN 3 ELSE 0)
     ELSE IF b1 >= 240 /\ b1 <= 244
       THEN (IF c2 /\ c3 /\ c4 /\ (b1 = 240 => b[2] >= 144)
                               /\ (b1 = 244 => b[2] <= 143) THEN 4 ELSE 0)
     ELSE 0

CodePoint(b, w) ==
  IF w = 1 THEN b[1]
  ELSE IF w = 2 THEN (b[1] - 192) * 64 + (b[2] - 128)
  ELSE IF w = 3 THEN (b[1] - 224) * 4096 + (b[2] - 128) * 64 + (b[3] - 128)
  ELSE (b[1] - 240) * 262144 + (b[2] - 128) * 4096
       + (b[3] - 128) * 64 + (b[4] - 128)

\* the decoded text, or ok = FALSE for UnicodeDecodeError
RECURSIVE Utf8Decode(_)
Utf8Decode(b) ==
  IF b = <<>> THEN [ok |-> TRUE, s |-> <<>>]
  ELSE LET w == CharWidth(b)
       IN IF w = 0 THEN [ok |-> FALSE, s |-> <<>>]
          ELSE LET rest == Utf8Decode(SubSeq(b, w + 1, Len(b)))
               IN [ok |-> rest.ok,
                   s |-> IF rest.ok THEN <<CodePoint(b, w)>> \o rest.s
                         ELSE <<>>]

\* ------------------------------------------------------------ file system
Exists(f, name) == \E p \in f : p[1] = name
Content(f, name) == (CHOOSE p \in f : p[1] = name)[2]

\* open(name, "a"): create the file, or keep its content
OpenAppend(f, name) == IF Exists(f, name) THEN f ELSE f \cup {<<name, <<>>>>}
\* open(name, "w"): create the file, or truncate it
OpenW(f, name) == {p \in f : p[1] # name} \cup {<<name, <<>>>>}

\* handle.write(text)
WriteTo(f, name, text) ==
  {p \in f : p[1] # name} \cup {<<name, Content(f, name) \o text>>}

\* ------------------------------------------------- the dict of handles
\* dictFiles is an insertion-ordered dict: a sequence of entries
\* [key, closed], closed telling whether close() was called on the handle
Keys(d) == {d[j].key : j \in 1..Len(d)}
IndexOf(d, key) == CHOOSE j \in 1..Len(d) : d[j].key = key
Lookup(d, key) == d[IndexOf(d, key)]

\* a lookup that never finds the key
AlwaysMissing(d, key) == TRUE
\* n not in dictFiles
NotInDict(d, key) == key \notin Keys(d)

\* dictFiles[key] = handle
DictSet(d, key, h) ==
  IF key \in Keys(d) THEN [d EXCEPT ![IndexOf(d, key)] = h]
  ELSE Append(d, h)

\* a closing loop that stops after its first value
StopAfterFirst(d, j) == j >= 1 \/ j = Len(d)
\* the for loop over dictFiles.values() has no value left
ValuesExhausted(d, j) == j = Len(d)

\* ------------------------------------------------------------------ state
VARIABLES
  source,     \* the decompressed lines of ./english-words.txt.gz
  fs,         \* the "<n>.txt" files of the working directory
  run,        \* which invocation of the script this is
  pc,         \* position of the script
  err,        \* "none", or the kind of exception that ended the run
  i,          \* number of lines the for loop has taken from the source
  word,       \* the variable word (bytes)
  n,          \* the variable n
  dictFiles,  \* the dict dictFiles
  k,          \* number of values the closing loop has taken
  opened,     \* history: bag of the names passed to open(), this run
  closes,     \* history: bag of the names whose handle got close(), this run
  written,    \* history: bag of the names a word was written to, this run
  fsBefore,   \* history: fs when the current line was taken
  dictBefore, \* history: dictFiles when the current line was taken
  prevFs,     \* history: fs at the end of the previous run
  prevErr     \* history: err at the end of the previous run

vars == <<source, fs, run, pc, err, i, word, n, dictFiles, k, opened,
          closes, written, fsBefore, dictBefore, prevFs, prevErr>>

proc == <<i, word, n, dictFiles, k>>
hist == <<opened, closes, written, fsBefore, dictBefore>>
prev == <<prevFs, prevErr>>

Init ==
  /\ source \in Sources
  /\ fs \in {{}, StaleFiles}
  /\ run = 1
  /\ pc = "start"
  /\ err = "none"
  /\ i = 0
  /\ word = <<>>
  /\ n = 0
  /\ dictFiles = <<>>
  /\ k = 0
  /\ opened = EmptyBag
  /\ closes = EmptyBag
  /\ written = EmptyBag
  /\ fsBefore = fs
  /\ dictBefore = <<>>
  /\ prevFs = {}
  /\ prevErr = "none"

\* an uncaught exception: the script ends, nothing after the raise runs
Raise(kind) ==
  /\ pc' = "aborted"
  /\ err' = kind

\* line 6: gzip.open succeeds
OpenSource ==
  /\ pc = "start"
  /\ pc' = "read"
  /\ UNCHANGED <<source, fs, run, err, proc, hist, prev>>

\* line 6: the source is missing or unreadable
OpenSourceFail ==
  /\ pc = "start"
  /\ Raise("io")
  /\ UNCHANGED <<source, fs, run, proc, hist, prev>>

\* lines 7-9: the loop takes the next line, strips it and measures it
NextLine ==
  /\ pc = "read"
  /\ i < Len(source)
  /\ i' = i + 1
  /\ word' = Strip(source[i + 1])
  /\ n' = BucketOf(word')
  /\ fsBefore' = fs
  /\ dictBefore' = dictFiles
  /\ pc' = "lookup"
  /\ UNCHANGED <<source, fs, run, err, dictFiles, k, opened, closes,
                 written, prev>>

\* line 7: the gzip stream is malformed
ReadFail ==
  /\ pc = "read"
  /\ Raise("io")
  /\ UNCHANGED <<source, fs, run, proc, hist, prev>>

\* lines 7, 6: no line is left, the with block is left
SourceExhausted ==
  /\ pc = "read"
  /\ i = Len(source)
  /\ pc' = "close"
  /\ UNCHANGED <<source, fs, run, err, proc, hist, prev>>

\* lines 11-12: no handle for n yet, open "<n>.txt" for writing
OpenBucket ==
  /\ pc = "lookup"
  /\ NotInDict(dictFiles, n)
  /\ fs' = OpenW(fs, n)
  /\ dictFiles' = DictSet(dictFiles, n, [key |-> n, closed |-> FALSE])
  /\ opened' = opened (+) SetToBag({n})
  /\ pc' = "write"
  /\ UNCHANGED <<source, run, err, i, word, n, k, closes, written,
                 fsBefore, dictBefore, prev>>

\* line 12: open() fails
OpenBucketFail ==
  /\ pc = "lookup"
  /\ NotInDict(dictFiles, n)
  /\ Raise("io")
  /\ UNCHANGED <<source, fs, run, proc, hist, prev>>

\* line 11: a handle for n is in the dict
ReuseBucket ==
  /\ pc = "lookup"
  /\ ~NotInDict(dictFiles, n)
  /\ pc' = "write"
  /\ UNCHANGED <<source, fs, run, err, proc, hist, prev>>

\* line 14: decode the word and write it with a newline
WriteWord ==
  /\ pc = "write"
  /\ Utf8Decode(word).ok
  /\ IF Lookup(dictFiles, n).closed
     THEN \* write() on a closed file raises ValueError
          /\ Raise("closed")
          /\ UNCHANGED <<fs, written>>
     ELSE /\ fs' = WriteTo(fs, n, Append(Utf8Decode(word).s, NL))
          /\ written' = written (+) SetToBag({n})
          /\ pc' = "read"
          /\ err' = err
  /\ UNCHANGED <<source, run, proc, opened, closes, fsBefore, dictBefore,
                 prev>>

\* line 14: the word is not valid UTF-8
DecodeFail ==
  /\ pc = "write"
  /\ ~Utf8Decode(word).ok
  /\ Raise("decode")
  /\ UNCHANGED <<source, fs, run, proc, hist, prev>>

\* line 14: write() fails
WriteFail ==
  /\ pc = "write"
  /\ Utf8Decode(word).ok
  /\ Raise("io")
  /\ UNCHANGED <<source, fs, run, proc, hist, prev>>

\* lines 16-17: close the next handle of dictFiles.values()
CloseNext ==
  /\ pc = "close"
  /\ ~ValuesExhausted(dictFiles, k)
  /\ k' = k + 1
  /\ dictFiles' = [dictFiles EXCEPT ![k + 1].closed = TRUE]
  /\ closes' = closes (+) SetToBag({dictFiles[k + 1].key})
  /\ UNCHANGED <<source, fs, run, pc, err, i, word, n, opened, written,
                 fsBefore, dictBefore, prev>>

\* line 16: the closing loop is over, the script ends
Finish ==
  /\ pc = "close"
  /\ ValuesExhausted(dictFiles, k)
  /\ pc' = "done"
  /\ UNCHANGED <<source, fs, run, err, proc, hist, prev>>

Ended == pc \in {"done", "aborted"}

\* the script is started again on the same source and working directory
Rerun ==
  /\ Ended
  /\ run < MaxRuns
  /\ run' = run + 1
  /\ prevFs' = fs
  /\ prevErr' = err
  /\ pc' = "start"
  /\ err' = "none"
  /\ i' = 0
  /\ word' = <<>>
  /\ n' = 0
  /\ dictFiles' = <<>>
  /\ k' = 0
  /\ opened' = EmptyBag
  /\ closes' = EmptyBag
  /\ written' = EmptyBag
  /\ fsBefore' = fs
  /\ dictBefore' = <<>>
  /\ UNCHANGED <<source, fs>>

Step ==
  \/ OpenSource
  \/ NextLine
  \/ SourceExhausted
  \/ OpenBucket
  \/ ReuseBucket
  \/ WriteWord
  \/ DecodeFail
  \/ CloseNext
  \/ Finish

Failure ==
  \/ OpenSourceFail
  \/ ReadFail
  \/ OpenBucketFail
  \/ WriteFail

Next == Step \/ Failure \/ Rerun

Spec == Init /\ [][Next]_vars

\* the interpreter always executes the next statement
FairSpec == Spec /\ WF_vars(Step)

\* ------------------------------------------------- vocabulary of the claims
Created == Keys(dictFiles)
AllClosed == \A j \in 1..Len(dictFiles) : dictFiles[j].closed

\* the decoded text of the j-th word of the source
Text(j) == Utf8Decode(Strip(source[j])).s
\* its length in characters
CharLen(j) == Len(Text(j))
CharLens == {CharLen(j) : j \in 1..Len(source)}

\* the lines of a file content, terminators removed
RECURSIVE SplitLines(_)
SplitLines(c) ==
  IF c = <<>> THEN <<>>
  ELSE LET e == CHOOSE x \in 1..(Len(c) + 1) :
                  /\ x = Len(c) + 1 \/ c[x] = NL
                  /\ \A y \in 1..(x - 1) : c[y] # NL
       IN <<SubSeq(c, 1, e - 1)>> \o SplitLines(SubSeq(c, e + 1, Len(c)))

LinesOf(name) == SplitLines(Content(fs, name))
HasLine(name, text) ==
  /\ name \in Created
  /\ Exists(fs, name)
  /\ \E x \in 1..Len(LinesOf(name)) : LinesOf(name)[x] = text

RECURSIVE TotalLines(_)
TotalLines(names) ==
  IF names = {} THEN 0
  ELSE LET name == CHOOSE x \in names : TRUE
       IN Len(LinesOf(name)) + TotalLines(names \ {name})

\* the words of the first j lines that have `name` characters, each with its
\* newline, in source order
RECURSIVE WordsOfLength(_, _)
WordsOfLength(name, j) ==
  IF j = 0 THEN <<>>
  ELSE WordsOfLength(name, j - 1)
       \o (IF CharLen(j) = name THEN Append(Text(j), NL) ELSE <<>>)

EndsWith(c, t) ==
  Len(c) >= Len(t) /\ SubSeq(c, Len(c) - Len(t) + 1, Len(c)) = t

AllWhite(b) == \A x \in 1..Len(b) : b[x] \in Whitespace

\* C1: after a successful run every word of the source is a line of the file
\* named after its length in characters and of no other file the run
\* created, and the files the run created hold as many lines as the source.
C1_EachWordInItsLengthFile ==
  pc = "done" =>
    /\ \A j \in 1..Len(source) :
         \A name \in Created \cup {CharLen(j)} :
           HasLine(name, Text(j)) <=> name = CharLen(j)
    /\ TotalLines(Created) = Len(source)

\* C2: every line of a file N.txt the run created has N characters: the
\* bucket is chosen by the length of the decoded text.
C2_BucketIsCharacterCount ==
  \A name \in Created :
    \A x \in 1..Len(LinesOf(name)) : Len(LinesOf(name)[x]) = name

\* C3: after a successful run the content of each file the run created is
\* the sequence of the source words of that length, each followed by a
\* newline, in source order.
C3_FileIsOrderedSubsequence ==
  pc = "done" =>
    \A name \in Created \cup CharLens :
      /\ name \in Created
      /\ Exists(fs, name)
      /\ Content(fs, name) = WordsOfLength(name, Len(source))

\* C4: when a line is not valid UTF-8, the files and the handles at the
\* abort are those that the earlier lines left: nothing is created or
\* truncated for the failing line.
C4_NoOutputForFailingLine ==
  (pc = "aborted" /\ err = "decode") =>
    (fs = fsBefore /\ dictFiles = dictBefore)

\* C5: when the run has ended, normally or by an exception, every handle
\* that was opened is closed.
C5_HandlesClosedOnEveryExit ==
  Ended => AllClosed

\* the contiguous pieces of a line
Pieces(line) ==
  {SubSeq(line, a + 1, b) : a \in 0..Len(line), b \in 0..Len(line)}

\* the word left when only trailing whitespace is removed from the line
IsRTrimOf(w, line) ==
  \E b \in 0..Len(line) :
    /\ w = SubSeq(line, 1, b)
    /\ AllWhite(SubSeq(line, b + 1, Len(line)))
    /\ (w = <<>> \/ w[Len(w)] \notin Whitespace)

\* the word left when whitespace is removed from both ends of the line
IsTrimOf(w, line) ==
  \E a \in 0..Len(line) : \E b \in a..Len(line) :
    /\ w = SubSeq(line, a + 1, b)
    /\ AllWhite(SubSeq(line, 1, a))
    /\ AllWhite(SubSeq(line, b + 1, Len(line)))
    /\ (w = <<>> \/ (w[1] \notin Whitespace /\ w[Len(w)] \notin Whitespace))

\* the line just processed was written as the word w, to the file that the
\* length of w (in bytes, as the script measures it) names
WrittenAs(w) ==
  /\ Len(w) \in Created
  /\ Exists(fs, Len(w))
  /\ EndsWith(Content(fs, Len(w)), Append(Utf8Decode(w).s, NL))

LineWritten == pc = "read" /\ i >= 1

C7_OneFilePerDistinctLength ==
  pc = "done" =>
    /\ Cardinality(Created) = Cardinality(CharLens)
    /\ Created \subseteq CharLens

\* C8: in a run no name is passed to open() twice, and a file the run
\* created holds every word written to it so far: a later word of the same
\* length reuses the handle and nothing is truncated away.
C8_OpenedAtMostOnce ==
  \A name \in Created :
    /\ CopiesIn(name, opened) = 1
    /\ Exists(fs, name)
    /\ Len(LinesOf(name)) = CopiesIn(name, written)

\* a second word went to a file through the handle the first one opened
C8_Witness ==
  \E name \in Created :
    /\ CopiesIn(name, written) >= 2
    /\ CopiesIn(name, opened) = 1
    /\ Len(LinesOf(name)) >= 2

\* C9: a second run on the same source, neither run hitting an I/O failure,
\* ends with exactly the files the first run ended with.
C9_SecondRunSameFiles ==
  (run >= 2 /\ Ended /\ err # "io" /\ prevErr # "io") => fs = prevFs

\* a second successful run has rewritten a file the first run had filled
C9_Witness ==
  /\ run = 2
  /\ pc = "done"
  /\ prevErr = "none"
  /\ \E name \in Created :
       /\ Exists(prevFs, name)
       /\ Content(prevFs, name) # <<>>
       /\ Content(fs, name) = Content(prevFs, name)

\* the order of writes and closes in a run
C10_Orderly ==
  /\ (\E j \in 1..Len(dictFiles) : dictFiles[j].closed) =>
       (i = Len(source) /\ pc \in {"close", "done"})
  /\ err # "closed"
  /\ \A name \in Created : CopiesIn(name, closes) <= 1
  /\ pc = "done" =>
       /\ AllClosed
       /\ \A name \in BagToSet(opened) : CopiesIn(name, closes) = 1

\* C10: a run ends, by reaching the end of the script unless a failure
\* aborts it; handles are closed only once the source is exhausted, no write
\* goes to a closed handle, no handle is closed twice, and at the end of the
\* script every opened handle has been closed exactly once.
C10_TerminatesAndClosesLast ==
  /\ []C10_Orderly
  /\ (pc = "start") ~> (pc = "done" \/ err # "none")

\* a run over two buckets has ended with both handles closed
C10_Witness ==
  /\ pc = "done"
  /\ Len(dictFiles) >= 2
  /\ AllClosed
  /\ i = Len(source)

=============================================================================
